---- MODULE Spec2Model ----
(***************************************************************************)
(* A model of gomuks' local synchronisation core:                          *)
(*   - the pagination controller (pkg/hicli/paginate.go),                  *)
(*   - the web frontend's room list maintainer (StateStore.applySync),     *)
(*   - the push dispatcher of one websocket connection (websocket.go).     *)
(* Each part has its own specification over the shared variable tuple;     *)
(* the variables of the other part are left unchanged.                     *)
(***************************************************************************)
EXTENDS Integers, Sequences, FiniteSets, TLC

(***************************************************************************)
(* Bounds of the model.                                                    *)
(***************************************************************************)
NumRooms == 2
NumCalls == 2
NumEvents == 2
Limit == 2
ConcurrentChunk == 1
NumListRooms == 3
MaxTS == 2
MaxDelta == 2
EvtsCap == 2        \* capacity of a connection's evts channel (32 in websocket.go)
MaxPublished == 4   \* events published to a connection
MaxBatches == 1     \* full batches of initial rooms streamed to a connection
BatchSize == 2      \* rooms in one batch of initial rooms (100 in websocket.go)
MaxStoredRooms == 3 \* rooms in the store that sendInitialData streams
MaxSortTS == 2      \* sorting timestamps of the stored rooms
NumRefreshes == 2   \* GetRoomState calls made for one connection
MaxUsernameLen == 8 \* characters of the configured username
TicksPerSecond == 2 \* clock ticks in a second
TokenLifetime == 1  \* seconds a token is valid for (7 days in generateToken)
MaxNow == 5         \* clock ticks the server runs for

Rooms == 1..NumRooms
Calls == 1..NumCalls
Events == 1..NumEvents

\* The events of a room's history: all events belong to the first room, the
\* other rooms have an empty history.
EventsOf(r) == IF r = 1 THEN Events ELSE {}

Range(s) == {s[k] : k \in 1..Len(s)}

RECURSIVE Reverse(_)
Reverse(s) == IF s = <<>> THEN <<>> ELSE Append(Reverse(Tail(s)), Head(s))

(***************************************************************************)
(* Values of the pagination controller.                                    *)
(***************************************************************************)
\* database.PrevBatchPaginationComplete: the history-exhausted sentinel.
PrevBatchPaginationComplete == "fi.mau.gomuks.pagination_complete"
\* Tokens the server hands out in resp.End ("" = the server sent no token).
ServerTokens == {"", "t1", "t2"}
InitialPrevBatch == "t1"

NoCall == 0
NoErr == ""
ErrPaginationAlreadyInProgress == "pagination is already in progress"
ErrContext == "context canceled"

\* A nil *database.Event (the zero entries of make([]*database.Event, n)).
NilEvent == [RowID |-> 0, TimelineRowID |-> 0]

\* The row the event table gives an event: a second upsert of the same
\* event ID yields the same row.
RowIDOf(e) == 100 + e

\* Events that arrive encrypted and cannot be decrypted yet: the first
\* event. Each such event belongs to its own megolm session.
Undecryptable(e) == e = 1
SessionOf(e) == 200 + e


VARIABLES
    paginationInterrupter, \* h.paginationInterrupter: room -> the call holding it
    prevBatch,             \* room.prev_batch of every room (the pagination cursor)
    timeline,              \* per room: event rows, oldest first
    timelineFirst,         \* per room: timeline row ID of the oldest row
    sessionRequests,       \* stored session requests (session IDs)
    call                   \* per caller: the Paginate / PaginateServer invocation

pagVars == <<paginationInterrupter, prevBatch, timeline, timelineFirst,
             sessionRequests, call>>

(***************************************************************************)
(* The event store, as far as pagination uses it.                          *)
(***************************************************************************)
\* The part of the database one page touches.
RoomDB(r) == [prevBatch |-> prevBatch[r], timeline |-> timeline[r],
              first |-> timelineFirst[r], sessionRequests |-> sessionRequests]

\* h.processEvent(ctx, evt, summary, decryptionQueue, true): the stored
\* record, and the accumulator with a session request added when the event
\* cannot be decrypted now.
ProcessEvent(e, decryptionQueue) ==
    [dbEvt |-> [RowID |-> RowIDOf(e), TimelineRowID |-> 0],
     queue |-> IF Undecryptable(e) THEN decryptionQueue \cup {SessionOf(e)}
               ELSE decryptionQueue]

\* DB.Timeline.Has(roomID, rowID)
TimelineHas(tl, rowID) == rowID \in Range(tl)

\* DB.Timeline.Prepend(roomID, rowIDs): rowIDs come newest first; they are
\* put before the oldest row, and get timeline rows below it.
TimelinePrepend(db, rowIDs) ==
    [db EXCEPT !.timeline = Reverse(rowIDs) \o @, !.first = @ - Len(rowIDs)]

\* The tuples DB.Timeline.Prepend returns, one per row ID, in argument order.
PrependTuples(db, rowIDs) ==
    [k \in 1..Len(rowIDs) |-> [Timeline |-> db.first - k, EventRowID |-> rowIDs[k]]]

\* Timeline row ID of the row at position k (1 = oldest).
TimelineRowAt(first, k) == first + k - 1

RECURSIVE TimelineGetFrom(_, _, _, _, _)
TimelineGetFrom(tl, first, k, limit, before) ==
    IF k < 1 \/ limit = 0 THEN <<>>
    ELSE IF TimelineRowAt(first, k) < before
         THEN <<[RowID |-> tl[k], TimelineRowID |-> TimelineRowAt(first, k)]>>
              \o TimelineGetFrom(tl, first, k - 1, limit - 1, before)
         ELSE TimelineGetFrom(tl, first, k - 1, limit, before)

\* DB.Timeline.Get(roomID, limit, maxTimelineID): up to limit events with a
\* timeline row below maxTimelineID, newest first.
TimelineGet(tl, first, limit, before) ==
    TimelineGetFrom(tl, first, Len(tl), limit, before)

\* DB.DoTxn: the body's writes are kept when it returns nil, rolled back
\* when it returns an error.
DoTxnNoRollback(db, body) == body.db
DoTxn(db, body) == IF body.err = NoErr THEN body.db ELSE db

(***************************************************************************)
(* PaginateServer, lines 254-312: the transaction body.                    *)
(***************************************************************************)
NoFail == [step |-> "none", at |-> 0]
LoopFails(n) == [step : {"processEvent", "has"}, at : 1..n]
TailFails == [step : {"put", "fillReactionCounts", "fillLastEditRowIDs",
                      "setPrevBatch", "prepend"}, at : {0}]

\* Where the loop stores the i-th chunk event after iOffset duplicates.
SlotNoOffset(i, iOffset) == i
Slot(i, iOffset) == i - iOffset

RECURSIVE DedupLoop(_, _, _, _, _)
\* Lines 261-277, from chunk position i on.
DedupLoop(chunk, tl, i, st, fail) ==
    IF i > Len(chunk) THEN st
    ELSE IF fail = [step |-> "processEvent", at |-> i]
    THEN [st EXCEPT !.err = "failed to process event"]
    ELSE LET pe == ProcessEvent(chunk[i], st.decryptionQueue)
             st1 == [st EXCEPT !.decryptionQueue = pe.queue]
         IN IF fail = [step |-> "has", at |-> i]
            THEN [st1 EXCEPT !.err = "failed to check if event exists in timeline"]
            ELSE IF TimelineHas(tl, pe.dbEvt.RowID)
            THEN DedupLoop(chunk, tl, i + 1, [st1 EXCEPT !.iOffset = @ + 1], fail)
            ELSE DedupLoop(chunk, tl, i + 1,
                     [st1 EXCEPT !.events[Slot(i, st.iOffset)] = pe.dbEvt,
                                 !.eventRowIDs[Slot(i, st.iOffset)] = pe.dbEvt.RowID],
                     fail)

LoopStart(n) ==
    [events |-> [k \in 1..n |-> NilEvent], eventRowIDs |-> [k \in 1..n |-> 0],
     iOffset |-> 0, decryptionQueue |-> {}, err |-> NoErr]

\* The whole body: the error it returns, the events and wakeup flag it
\* leaves in the enclosing function, the row IDs it prepends, and the
\* database as the body leaves it (before commit or rollback).
TxnBody(db, resp, cancelled, fail) ==
    LET n == Len(resp.Chunk)
        out(err, events, rowIDs, wakeup, d, iOffset) ==
            [err |-> err, events |-> events, eventRowIDs |-> rowIDs,
             wakeupSessionRequests |-> wakeup, db |-> d, iOffset |-> iOffset]
        nils == [k \in 1..n |-> NilEvent]
    IN  IF cancelled THEN out(ErrContext, nils, <<>>, FALSE, db, 0)
        ELSE
        LET st == DedupLoop(resp.Chunk, db.timeline, 1, LoopStart(n), fail)
        IN  IF st.err # NoErr THEN out(st.err, st.events, <<>>, FALSE, db, st.iOffset)
            ELSE IF st.iOffset >= Len(st.events)
            THEN out(NoErr, <<>>, <<>>, FALSE, db, st.iOffset)
            ELSE
            LET events == SubSeq(st.events, 1, Len(st.events) - st.iOffset)
                rowIDs == SubSeq(st.eventRowIDs, 1, Len(st.eventRowIDs) - st.iOffset)
                wakeup == st.decryptionQueue # {}
                db1 == [db EXCEPT !.sessionRequests = @ \cup st.decryptionQueue]
                db2 == [db1 EXCEPT !.prevBatch = resp.End]
                db3 == TimelinePrepend(db2, rowIDs)
                tuples == PrependTuples(db2, rowIDs)
                placed == [k \in 1..Len(events) |->
                              [events[k] EXCEPT !.TimelineRowID = tuples[k].Timeline]]
            IN  IF fail.step = "put" /\ st.decryptionQueue # {}
                THEN out("failed to save session request", events, rowIDs, wakeup, db, st.iOffset)
                ELSE IF fail.step = "fillReactionCounts"
                THEN out("failed to fill last edit row IDs", events, rowIDs, wakeup, db1, st.iOffset)
                ELSE IF fail.step = "fillLastEditRowIDs"
                THEN out("failed to fill last edit row IDs", events, rowIDs, wakeup, db1, st.iOffset)
                ELSE IF fail.step = "setPrevBatch"
                THEN out("failed to set prev_batch", events, rowIDs, wakeup, db1, st.iOffset)
                ELSE IF fail.step = "prepend"
                THEN out("failed to prepend events to timeline", events, rowIDs, wakeup, db2, st.iOffset)
                ELSE out(NoErr, placed, rowIDs, wakeup, db3, st.iOffset)


(***************************************************************************)
(* Callers.  call[c] is one invocation of Paginate or PaginateServer: its  *)
(* position (pc), arguments, locals and, once done, its return values.     *)
(***************************************************************************)
NoResp == [Chunk |-> <<>>, End |-> ""]

IdleCall ==
    [pc |-> "idle", kind |-> "", roomID |-> 0, maxTimelineID |-> 0,
     cancelled |-> FALSE, iOffset |-> 0,
     roomPrevBatch |-> "", requested |-> FALSE, reqToken |-> "", resp |-> NoResp,
     events |-> <<>>, hasMore |-> FALSE, err |-> NoErr, returned |-> FALSE,
     wakeupSessionRequests |-> FALSE, committed |-> FALSE, wakeups |-> 0]

\* Between the insertion of the interrupter entry and its deferred removal.
InFlightPCs == {"room", "messages", "apply", "defer"}
InFlight(c) == call[c].pc \in InFlightPCs

\* Lines 220, 224 and 228: the map operations, done under the lock.
AlreadyPaginatingNever(r) == FALSE
AlreadyPaginating(r) == paginationInterrupter[r] # NoCall

InsertInterrupter(m, r, c) == [m EXCEPT ![r] = c]

DeleteInterrupterForgotten(m, r) == m
DeleteInterrupter(m, r) == [m EXCEPT ![r] = NoCall]

\* A return: the results, and whether a *PaginationResponse comes back. The
\* locals room and resp are dead from here on.
Return(rec, events, hasMore, err, returned) ==
    [rec EXCEPT !.events = events, !.hasMore = hasMore, !.err = err,
                !.returned = returned, !.roomPrevBatch = "", !.resp = NoResp]

\* Lines 218-230: entry of PaginateServer for a call whose record so far is rec.
EnterPaginateServer(c, rec) ==
    IF AlreadyPaginating(rec.roomID)
    THEN /\ call' = [call EXCEPT ![c] =
                  [Return(rec, <<>>, FALSE, ErrPaginationAlreadyInProgress, FALSE)
                      EXCEPT !.pc = "done"]]
         /\ UNCHANGED paginationInterrupter
    ELSE /\ paginationInterrupter' = InsertInterrupter(paginationInterrupter, rec.roomID, c)
         /\ call' = [call EXCEPT ![c] = [rec EXCEPT !.pc = "room"]]

\* Line 207: does Paginate answer from local storage?
HasLocalAlways(evts) == TRUE
HasLocal(evts) == Len(evts) > 0

\* Paginate, lines 203-212: the local read. An empty read goes on to
\* PaginateServer (line 213).
Paginate(c, r, before, getFails) ==
    /\ call[c].pc = "idle"
    /\ LET rec == [IdleCall EXCEPT !.kind = "Paginate", !.roomID = r,
                                       !.maxTimelineID = before]
           evts == TimelineGet(timeline[r], timelineFirst[r], Limit, before)
       IN  call' = [call EXCEPT ![c] =
              IF getFails
              THEN [Return(rec, <<>>, FALSE, "failed to get timeline", FALSE)
                       EXCEPT !.pc = "done"]
              ELSE IF HasLocal(evts)
              THEN [Return(rec, evts, TRUE, NoErr, TRUE) EXCEPT !.pc = "done"]
              ELSE [rec EXCEPT !.pc = "lock"]]
    /\ UNCHANGED <<paginationInterrupter, prevBatch, timeline, timelineFirst,
                   sessionRequests>>

\* Line 213: Paginate calls PaginateServer.
PaginateDelegates(c) ==
    /\ call[c].pc = "lock"
    /\ EnterPaginateServer(c, [call[c] EXCEPT !.maxTimelineID = 0])
    /\ UNCHANGED <<prevBatch, timeline, timelineFirst, sessionRequests>>

\* A direct call of PaginateServer.
PaginateServer(c, r) ==
    /\ call[c].pc = "idle"
    /\ EnterPaginateServer(c, [IdleCall EXCEPT !.kind = "PaginateServer", !.roomID = r])
    /\ UNCHANGED <<prevBatch, timeline, timelineFirst, sessionRequests>>

\* Line 235: the cursor holds the history-exhausted sentinel.
IsCompleteNever(pb) == FALSE
IsComplete(pb) == pb = PrevBatchPaginationComplete

\* Lines 232-237: read the room, stop at the sentinel.
RoomGet(c, getFails) ==
    /\ call[c].pc = "room"
    /\ call[c].cancelled => getFails
    /\ LET rec == call[c]
           pb == prevBatch[rec.roomID]
       IN  call' = [call EXCEPT ![c] =
              IF getFails
              THEN [Return(rec, <<>>, FALSE, "failed to get room from database", FALSE)
                       EXCEPT !.pc = "defer"]
              ELSE IF IsComplete(pb)
              THEN [Return(rec, <<>>, FALSE, NoErr, TRUE) EXCEPT !.pc = "defer"]
              ELSE [rec EXCEPT !.pc = "messages", !.roomPrevBatch = pb]]
    /\ UNCHANGED <<paginationInterrupter, prevBatch, timeline, timelineFirst,
                   sessionRequests>>

\* The chunks a server may answer with: up to n events of the room's history
\* (n is at most the limit of the request).
Chunks(r, n) == UNION {[1..k -> EventsOf(r)] : k \in 0..n}

\* Lines 238-241: the /messages request fails.
MessagesFails(c) ==
    /\ call[c].pc = "messages"
    /\ call' = [call EXCEPT ![c] =
           [Return(call[c], <<>>, FALSE, "failed to get messages from server", FALSE)
               EXCEPT !.pc = "defer",
                      !.requested = ~call[c].cancelled,
                      !.reqToken = IF call[c].cancelled THEN "" ELSE call[c].roomPrevBatch]]
    /\ UNCHANGED <<paginationInterrupter, prevBatch, timeline, timelineFirst,
                   sessionRequests>>

\* Line 238: the /messages request is answered.
Messages(c, chunk, end) ==
    /\ call[c].pc = "messages"
    /\ ~call[c].cancelled
    /\ call' = [call EXCEPT ![c] =
           [call[c] EXCEPT !.pc = "apply", !.requested = TRUE,
                           !.reqToken = call[c].roomPrevBatch,
                           !.resp = [Chunk |-> chunk, End |-> end]]]
    /\ UNCHANGED <<paginationInterrupter, prevBatch, timeline, timelineFirst,
                   sessionRequests>>


\* Lines 243-245: an empty end token means the history is exhausted.
EndOf(resp) == IF resp.End = "" THEN PrevBatchPaginationComplete ELSE resp.End

\* Line 246: the page is not applied in a transaction.
IsLastPage(resp) == EndOf(resp) = PrevBatchPaginationComplete \/ Len(resp.Chunk) = 0

\* Line 251: HasMore of that return (resp.End has been replaced by then).
HasMoreAfter(resp) == EndOf(resp) # ""

\* Lines 242-252: the server signalled the end of history, or sent no events.
ApplyLastPage(c, setFails) ==
    /\ call[c].pc = "apply"
    /\ IsLastPage(call[c].resp)
    /\ call[c].cancelled => setFails
    /\ LET rec == call[c]
           events == [k \in 1..Len(rec.resp.Chunk) |-> NilEvent]
       IN  IF setFails
           THEN /\ call' = [call EXCEPT ![c] =
                       [Return(rec, <<>>, FALSE, "failed to set prev_batch", FALSE)
                           EXCEPT !.pc = "defer"]]
                /\ UNCHANGED prevBatch
           ELSE /\ prevBatch' = [prevBatch EXCEPT ![rec.roomID] = EndOf(rec.resp)]
                /\ call' = [call EXCEPT ![c] =
                       [Return(rec, events, HasMoreAfter(rec.resp), NoErr, TRUE)
                           EXCEPT !.pc = "defer"]]
    /\ UNCHANGED <<paginationInterrupter, timeline, timelineFirst, sessionRequests>>

\* Line 313: the wakeup is sent when the transaction returned no error and
\* the flag of line 284 is set.
SendsWakeup(err, wakeupSessionRequests) == err = NoErr /\ wakeupSessionRequests

\* Lines 253-316: the page is applied in one transaction, which fails at
\* `fail` (NoFail: nowhere); then the wakeup, and the return values.
ApplyTxn(c, fail) ==
    /\ call[c].pc = "apply"
    /\ ~IsLastPage(call[c].resp)
    /\ LET rec == call[c]
           r == rec.roomID
           resp == [Chunk |-> rec.resp.Chunk, End |-> EndOf(rec.resp)]
           body == TxnBody(RoomDB(r), resp, rec.cancelled, fail)
           db == DoTxn(RoomDB(r), body)
       IN  /\ fail # NoFail => body.err # NoErr
           /\ fail # NoFail => ~rec.cancelled
           /\ prevBatch' = [prevBatch EXCEPT ![r] = db.prevBatch]
           /\ timeline' = [timeline EXCEPT ![r] = db.timeline]
           /\ timelineFirst' = [timelineFirst EXCEPT ![r] = db.first]
           /\ sessionRequests' = db.sessionRequests
           /\ call' = [call EXCEPT ![c] =
                  [Return(rec, body.events, TRUE, body.err, TRUE)
                      EXCEPT !.pc = "defer",
                             !.iOffset = body.iOffset,
                             !.wakeupSessionRequests = body.wakeupSessionRequests,
                             !.committed = (body.err = NoErr),
                             !.wakeups = IF SendsWakeup(body.err, body.wakeupSessionRequests)
                                         THEN @ + 1 ELSE @]]
    /\ UNCHANGED paginationInterrupter

\* Lines 226-230: the deferred removal of the interrupter entry, after which
\* the caller has the return values and the slot is free again.
Deferred(c) ==
    /\ call[c].pc = "defer"
    /\ paginationInterrupter' = DeleteInterrupter(paginationInterrupter, call[c].roomID)
    /\ call' = [call EXCEPT ![c] = IdleCall]
    /\ UNCHANGED <<prevBatch, timeline, timelineFirst, sessionRequests>>

\* A call that never took an interrupter entry has returned; the slot is
\* free for the next invocation.
TakeResult(c) ==
    /\ call[c].pc = "done"
    /\ call' = [call EXCEPT ![c] = IdleCall]
    /\ UNCHANGED <<paginationInterrupter, prevBatch, timeline, timelineFirst,
                   sessionRequests>>

\* The call's context is cancelled (by its caller, or through the handle in
\* the interrupter map) before one of the steps that consult it.
Cancel(c) ==
    /\ call[c].pc \in {"lock", "room", "messages", "apply"}
    /\ ~call[c].cancelled
    /\ call' = [call EXCEPT ![c] = [call[c] EXCEPT !.cancelled = TRUE]]
    /\ UNCHANGED <<paginationInterrupter, prevBatch, timeline, timelineFirst,
                   sessionRequests>>

\* Live sync appends an event that is not yet in the room's timeline.
LiveSync(r, e) ==
    /\ e \in EventsOf(r)
    /\ ~TimelineHas(timeline[r], RowIDOf(e))
    /\ timeline' = [timeline EXCEPT ![r] = Append(@, RowIDOf(e))]
    /\ UNCHANGED <<paginationInterrupter, prevBatch, timelineFirst, sessionRequests,
                   call>>

(***************************************************************************)
(* The web frontend's room list (StateStore).                              *)
(***************************************************************************)
VARIABLES
    rooms,      \* StateStore.rooms: room ID -> RoomStateStore, or NoRoom
    roomList,   \* StateStore.roomList.current: the ordered RoomListEntry list
    emitted,    \* did the last handler call roomList.emit?
    handler,    \* the StateStore handler that ran last
    resyncRoomList,          \* applySync's local of the last call (FALSE for other handlers)
    changedRoomListEntries,  \* applySync's local of the last call: the room IDs, in Map order
    occupied    \* the rooms the user occupies according to the deltas received

rlVars == <<rooms, roomList, emitted, handler, resyncRoomList, changedRoomListEntries, occupied>>

ListRooms == 1..NumListRooms
Timestamps == 0..MaxTS
UnreadValues == {0, 1}

\* No RoomStateStore for the room yet (this.rooms.get returns undefined).
NoRoom == [known |-> FALSE]

\* room.applySync(data), and the constructor before it for a new room: the
\* room's meta becomes the delta's meta, the delta's events are stored.
RoomApplySync(room, data) ==
    [known |-> TRUE, meta |-> data.meta,
     eventsByRowID |-> (IF room.known THEN room.eventsByRowID ELSE {}) \cup data.events]

\* Lines 133-140: #roomListEntryChanged(entry, oldEntry)
RoomListEntryChanged(entry, oldEntry) ==
    \/ entry.meta.sorting_timestamp # oldEntry.meta.sorting_timestamp
    \/ entry.meta.unread_messages # oldEntry.meta.unread_messages
    \/ entry.meta.unread_notifications # oldEntry.meta.unread_notifications
    \/ entry.meta.unread_highlights # oldEntry.meta.unread_highlights
    \/ entry.meta.preview_event_rowid # oldEntry.meta.preview_event_rowid
    \/ entry.meta.preview_event_rowid \in entry.events

\* Lines 142-161: #makeRoomListEntry(entry, room). preview_event is the row
\* of the stored preview event, 0 when the room does not have it; the name,
\* avatar and preview sender are left out.
MakeRoomListEntry(entry, room) ==
    [room_id |-> entry.room_id,
     sorting_timestamp |-> entry.meta.sorting_timestamp,
     preview_event |-> IF room.known /\ entry.meta.preview_event_rowid \in room.eventsByRowID
                       THEN entry.meta.preview_event_rowid ELSE 0,
     unread_messages |-> entry.meta.unread_messages,
     unread_notifications |-> entry.meta.unread_notifications,
     unread_highlights |-> entry.meta.unread_highlights]

\* Array.prototype.findLastIndex with the predicate of lines 201-202, as a
\* 1-based position (0: not found).
FindLastIndexLE(list, ts) ==
    LET hits == {k \in 1..Len(list) : list[k].sorting_timestamp <= ts}
    IN  IF hits = {} THEN 0 ELSE CHOOSE k \in hits : \A j \in hits : j <= k

InsertAt(list, k, entry) ==
    SubSeq(list, 1, k - 1) \o <<entry>> \o SubSeq(list, k, Len(list))

\* Line 203: the position splice puts the entry at.
SplicePositionOffByOne(list, ts) == IF FindLastIndexLE(list, ts) = 0 THEN 1
                                    ELSE FindLastIndexLE(list, ts)
SplicePosition(list, ts) == FindLastIndexLE(list, ts) + 1

\* Lines 194-204: one new or changed entry is put into the list.
InsertEntry(list, entry) ==
    IF Len(list) = 0 \/ entry.sorting_timestamp >= list[Len(list)].sorting_timestamp
    THEN Append(list, entry)
    ELSE IF entry.sorting_timestamp <= 0 \/ entry.sorting_timestamp < list[1].sorting_timestamp
    THEN <<entry>> \o list
    ELSE InsertAt(list, SplicePosition(list, entry.sorting_timestamp), entry)

RECURSIVE InsertAll(_, _)
\* Lines 193-205
InsertAll(list, entries) ==
    IF entries = <<>> THEN list
    ELSE InsertAll(InsertEntry(list, Head(entries)), Tail(entries))

\* Where a stable sort by the comparator of line 190 leaves the next entry:
\* after every entry that does not compare greater.
StableInsert(sorted, entry) ==
    LET after == {k \in 1..Len(sorted) :
                     sorted[k].sorting_timestamp - entry.sorting_timestamp <= 0}
        k == IF after = {} THEN 0 ELSE CHOOSE i \in after : \A j \in after : j <= i
    IN  InsertAt(sorted, k + 1, entry)

RECURSIVE StableSort(_, _)
\* Line 190: Array.prototype.sort (stable) with r1.ts - r2.ts
StableSort(sorted, rest) ==
    IF rest = <<>> THEN sorted
    ELSE StableSort(StableInsert(sorted, Head(rest)), Tail(rest))

\* Line 164: the wholesale rebuild is chosen while the list is empty.
ResyncRoomListAlways(list) == TRUE
ResyncRoomList(list) == Len(list) = 0

\* The rooms the user occupies after a delta: those it reports in
\* sync.rooms are occupied, those it reports as left are not.
Occupies(occ, sync) ==
    (occ \cup {sync.rooms[k].room_id : k \in 1..Len(sync.rooms)}) \ sync.left_rooms

\* Lines 163-210: applySync(sync); sync.rooms in the order of its keys.
\* The handler reads nothing of the delta but sync.rooms.
ApplySync(sync) ==
    LET resync == ResyncRoomList(roomList)
        data == sync.rooms
        isNewRoom(k) == ~rooms[data[k].room_id].known
        changed(k) == ~resync
                      /\ (isNewRoom(k) \/ RoomListEntryChanged(data[k], rooms[data[k].room_id]))
        inSync(r) == {k \in 1..Len(data) : data[k].room_id = r}
        newRooms == [r \in ListRooms |->
                        IF inSync(r) = {} THEN rooms[r]
                        ELSE RoomApplySync(rooms[r], data[CHOOSE k \in inSync(r) : TRUE])]
        entryOf(k) == MakeRoomListEntry(data[k], newRooms[data[k].room_id])
        changedKeys == SelectSeq([k \in 1..Len(data) |-> k], changed)
        changedEntries == [i \in 1..Len(changedKeys) |-> entryOf(changedKeys[i])]
        changedIDs == {data[changedKeys[i]].room_id : i \in 1..Len(changedKeys)}
        kept == SelectSeq(roomList, LAMBDA e : e.room_id \notin changedIDs)
    IN  /\ rooms' = newRooms
        /\ handler' = "applySync"
        /\ resyncRoomList' = resync
        /\ changedRoomListEntries' = [i \in 1..Len(changedKeys) |-> data[changedKeys[i]].room_id]
        /\ occupied' = Occupies(occupied, sync)
        /\ IF resync
           THEN /\ roomList' = StableSort(<<>>, [k \in 1..Len(data) |-> entryOf(k)])
                /\ emitted' = TRUE
           ELSE IF Len(changedKeys) > 0
           THEN /\ roomList' = InsertAll(kept, changedEntries)
                /\ emitted' = TRUE
           ELSE /\ roomList' = roomList
                /\ emitted' = FALSE

\* room.applyDecrypted(decrypted): the decrypted events replace the stored
\* ones.
RoomApplyDecrypted(room, decrypted) ==
    [room EXCEPT !.eventsByRowID = @ \cup decrypted.events]

\* Array.prototype.findIndex with the predicate of line 263, as a 1-based
\* position (0: not found).
FindIndexOfRoom(list, roomID) ==
    LET hits == {k \in 1..Len(list) : list[k].room_id = roomID}
    IN  IF hits = {} THEN 0 ELSE CHOOSE k \in hits : \A j \in hits : k <= j

\* Lines 255-273: applyDecrypted(decrypted)
ApplyDecrypted(decrypted) ==
    LET room == rooms[decrypted.room_id]
        newRoom == RoomApplyDecrypted(room, decrypted)
        idx == FindIndexOfRoom(roomList, decrypted.room_id)
        preview_event == IF decrypted.preview_event_rowid \in newRoom.eventsByRowID
                         THEN decrypted.preview_event_rowid ELSE 0
    IN  /\ handler' = "applyDecrypted"
        /\ resyncRoomList' = FALSE
        /\ changedRoomListEntries' = <<>>
        /\ occupied' = occupied
        /\ IF ~room.known
           THEN /\ rooms' = rooms
                /\ roomList' = roomList
                /\ emitted' = FALSE
           ELSE /\ rooms' = [rooms EXCEPT ![decrypted.room_id] = newRoom]
                /\ IF decrypted.preview_event_rowid # 0 /\ idx # 0
                   THEN /\ roomList' = [roomList EXCEPT ![idx].preview_event = preview_event]
                        /\ emitted' = TRUE
                   ELSE /\ roomList' = roomList
                        /\ emitted' = FALSE

(***************************************************************************)
(* The push dispatcher: one accepted websocket connection                  *)
(* (Gomuks.HandleWebsocket), from the point where closeOnce.Do(forceClose) *)
(* has been deferred.                                                      *)
(***************************************************************************)
VARIABLES
    wsPc,         \* where each goroutine of the connection is
    ctxDone,      \* ctx has been cancelled (ctx.Err() != nil)
    listening,    \* the event source holds the connection's callback and closer
    unsubscribe,  \* the function the variable `unsubscribe` holds
    conn,         \* the transport: open, or closed and with which status code
    evts,         \* the buffered contents of the evts channel
    evtsClosed,   \* close(evts) has run
    closeOnce,    \* the sync.Once guarding forceClose
    cmd,          \* the command the event loop has received and is writing
    published,    \* number of events published to the callback
    enqueued,     \* the events sent to evts, in order
    written,      \* the events the event loop has written to the transport
    dropped,      \* some published event was not enqueued
    sendOnClosed, \* the callback has sent to evts after close(evts)
    cleanup,      \* the steps of forceClose executed so far
    snapshot,     \* the client_state message: pending, written or failed
    wire,         \* the kinds of the messages written to the transport, in order
    process,      \* the gomuks process: running or crashed
    others        \* the other connections of the process

wsVars == <<wsPc, ctxDone, listening, unsubscribe, conn, evts, evtsClosed, closeOnce,
            cmd, published, enqueued, written, dropped, sendOnClosed, cleanup,
            snapshot, wire, process, others>>

\* Line 48
StatusEventsStuck == 4001
\* websocket.StatusInternalError (line 136), websocket.StatusUnsupportedData
\* (lines 187, 194) and the status code the server passes to closeManually.
StatusInternalError == 1011
StatusUnsupportedData == 1003
StatusGoingAway == 1001
\* The transport closed without a close frame (conn.CloseNow).
NoStatus == 0

Open == [closed |-> FALSE, code |-> NoStatus]

\* conn.Close(statusCode, reason): closes an open transport with the status
\* code; fails on a transport that is closed already.
ConnClose(c, statusCode) == IF c.closed THEN c ELSE [closed |-> TRUE, code |-> statusCode]

\* conn.CloseNow(): closes an open transport without a close handshake.
ConnCloseNow(c) == IF c.closed THEN c ELSE [closed |-> TRUE, code |-> NoStatus]

\* The goroutines: HandleWebsocket itself ("read loop"), the sender ("event
\* loop"), the publisher running the subscription callback, the goroutine
\* of lines 106-110, one submitCmd, the server calling closeManually, and
\* sendInitialData.
Tasks == {"readLoop", "eventLoop", "callback", "queueFull", "submitCmd", "closeManually",
          "sendInitialData"}

\* Lines 84-89: the statements of forceClose, in order.
ForceCloseSteps == <<"cancel", "unsubscribe", "closeNow", "closeEvts">>

Goto(t, pc) == wsPc' = [wsPc EXCEPT ![t] = pc]

\* sync.Once: Do runs the function for the first caller only.
OnceIsFreshAlways(once) == once # "running"
OnceIsFresh(once) == once = "fresh"

\* closeOnce.Do(forceClose), the last statement of task t: the first caller
\* runs forceClose, a caller that finds it running waits, a later one
\* returns at once.
OnceDo(t) ==
    /\ wsPc[t] = "once"
    /\ closeOnce # "running"
    /\ IF OnceIsFresh(closeOnce)
       THEN closeOnce' = "running" /\ Goto(t, "cancel")
       ELSE closeOnce' = closeOnce /\ Goto(t, "done")
    /\ UNCHANGED <<ctxDone, listening, unsubscribe, conn, evts, evtsClosed, cmd,
                   published, enqueued, written, dropped, sendOnClosed, cleanup,
                   snapshot, wire, process, others>>

\* Line 85: cancel()
ForceCloseCancel(t) ==
    /\ wsPc[t] = "cancel"
    /\ ctxDone' = TRUE
    /\ cleanup' = Append(cleanup, "cancel")
    /\ Goto(t, "unsubscribe")
    /\ UNCHANGED <<listening, unsubscribe, conn, evts, evtsClosed, closeOnce, cmd,
                   published, enqueued, written, dropped, sendOnClosed,
                   snapshot, wire, process, others>>

\* Line 86: unsubscribe(), whatever the variable holds when it is read: the
\* initial func() {} of line 82 or the function assigned at line 97.  The
\* function SubscribeEvents returns removes the callback and the closer
\* from the event source, waiting for a callback that is running.
ForceCloseUnsubscribe(t) ==
    /\ wsPc[t] = "unsubscribe"
    /\ IF unsubscribe = "subscription"
       THEN /\ wsPc["callback"] = "idle"
            /\ listening' = FALSE
       ELSE listening' = listening
    /\ cleanup' = Append(cleanup, "unsubscribe")
    /\ Goto(t, "closeNow")
    /\ UNCHANGED <<ctxDone, unsubscribe, conn, evts, evtsClosed, closeOnce, cmd,
                   published, enqueued, written, dropped, sendOnClosed,
                   snapshot, wire, process, others>>

\* Line 87: _ = conn.CloseNow()
ForceCloseCloseNow(t) ==
    /\ wsPc[t] = "closeNow"
    /\ conn' = ConnCloseNow(conn)
    /\ cleanup' = Append(cleanup, "closeNow")
    /\ Goto(t, "closeEvts")
    /\ UNCHANGED <<ctxDone, listening, unsubscribe, evts, evtsClosed, closeOnce, cmd,
                   published, enqueued, written, dropped, sendOnClosed,
                   snapshot, wire, process, others>>

\* Line 88: close(evts); forceClose returns and the Once is done.
ForceCloseCloseEvts(t) ==
    /\ wsPc[t] = "closeEvts"
    /\ evtsClosed' = TRUE
    /\ cleanup' = Append(cleanup, "closeEvts")
    /\ closeOnce' = "done"
    /\ Goto(t, "done")
    /\ UNCHANGED <<ctxDone, listening, unsubscribe, conn, evts, cmd,
                   published, enqueued, written, dropped, sendOnClosed,
                   snapshot, wire, process, others>>

\* Line 97, the call: SubscribeEvents registers closeManually and the
\* callback with the event source.
SubscribeEvents ==
    /\ wsPc["readLoop"] = "subscribe"
    /\ listening' = TRUE
    /\ Goto("readLoop", "assign")
    /\ UNCHANGED <<ctxDone, unsubscribe, conn, evts, evtsClosed, closeOnce, cmd,
                   published, enqueued, written, dropped, sendOnClosed, cleanup,
                   snapshot, wire, process, others>>

\* Line 97, the assignment of the returned function to `unsubscribe`, and
\* lines 114-132, the go statement that starts the event loop.
AssignUnsubscribe ==
    /\ wsPc["readLoop"] = "assign"
    /\ unsubscribe' = "subscription"
    /\ wsPc' = [wsPc EXCEPT !["readLoop"] = "init", !["eventLoop"] = "select"]
    /\ UNCHANGED <<ctxDone, listening, conn, evts, evtsClosed, closeOnce, cmd,
                   published, enqueued, written, dropped, sendOnClosed, cleanup,
                   snapshot, wire, process, others>>

\* writeCmd succeeds only on an open transport.
CanWrite(c) == ~c.closed

\* conn.Reader(ctx) yields a message only on an open transport and with a
\* live context.
CanRead(c, done) == ~c.closed /\ ~done

\* Lines 36-46, writeCmd: what the transport has carried is kept as the kind
\* of the first message and the number of messages of each kind.
Write(w, kind) ==
    [w EXCEPT !.first = IF w.first = "" THEN kind ELSE w.first, ![kind] = w[kind] + 1]

\* Lines 158-169: HandleWebsocket goes on after the client_state message
\* only if it was marshalled and written.
SnapshotSentAnyway(ok) == TRUE
SnapshotSent(ok) == ok

\* Lines 157-171: the client_state message is marshalled and written; a
\* failure of either returns from HandleWebsocket, otherwise sendInitialData
\* is started.
InitialSnapshot(ok) ==
    /\ wsPc["readLoop"] = "init"
    /\ ok => CanWrite(conn)
    /\ snapshot' = IF ok THEN "written" ELSE "failed"
    /\ wire' = IF ok THEN Write(wire, "client_state") ELSE wire
    /\ wsPc' = IF SnapshotSent(ok)
               THEN [wsPc EXCEPT !["readLoop"] = "read", !["sendInitialData"] = "loop"]
               ELSE [wsPc EXCEPT !["readLoop"] = "once"]
    /\ UNCHANGED <<ctxDone, listening, unsubscribe, conn, evts, evtsClosed, closeOnce, cmd,
                   published, enqueued, written, dropped, sendOnClosed, cleanup,
                   process, others>>

\* Lines 206-265, one turn of the loop of sendInitialData: GetBySortTS fails
\* (as it does once ctx is cancelled), or the batch it returns is
\* marshalled and written: the write fails, or a full batch is written and
\* the loop goes on, or the last batch is written.  The query touches
\* nothing the other goroutines use, so the turn is one step, taken at the
\* time of its write.
SendInitialData(outcome) ==
    /\ wsPc["sendInitialData"] = "loop"
    /\ outcome \in {"full", "last"} => (CanWrite(conn) /\ ~ctxDone)
    /\ outcome = "full" => wire.sync_complete < MaxBatches
    /\ wire' = IF outcome \in {"full", "last"} THEN Write(wire, "sync_complete") ELSE wire
    /\ Goto("sendInitialData", IF outcome = "full" THEN "loop" ELSE "returned")
    /\ UNCHANGED <<ctxDone, listening, unsubscribe, conn, evts, evtsClosed, closeOnce, cmd,
                   published, enqueued, written, dropped, sendOnClosed, cleanup,
                   snapshot, process, others>>

\* Lines 173-198, one turn of the read loop: conn.Reader fails ("error"),
\* the message is not text or not JSON ("unsupported"), or a command is
\* read and submitCmd is started for it ("command").
ReadLoop(outcome) ==
    /\ wsPc["readLoop"] = "read"
    /\ outcome = "command" => (wsPc["submitCmd"] = "unstarted" /\ CanRead(conn, ctxDone))
    /\ outcome = "unsupported" => CanRead(conn, ctxDone)
    /\ conn' = IF outcome = "unsupported" THEN ConnClose(conn, StatusUnsupportedData) ELSE conn
    /\ wsPc' = IF outcome = "command"
               THEN [wsPc EXCEPT !["submitCmd"] = "submit"]
               ELSE [wsPc EXCEPT !["readLoop"] = "once"]
    /\ UNCHANGED <<ctxDone, listening, unsubscribe, evts, evtsClosed, closeOnce, cmd,
                   published, enqueued, written, dropped, sendOnClosed, cleanup,
                   snapshot, wire, process, others>>

\* No command in the event loop's hands.
NoCmd == 0

\* Lines 53-68: recoverPanic reports whether recover() returned a panic;
\* recover() stops the panic of the goroutine and returns it only when the
\* function that calls it was itself deferred ("direct": lines 69 and 115),
\* and returns nil otherwise.
RecoverPanic(direct, panicking) == direct /\ panicking

\* A panic that no deferred recover stops ends the process, and with it
\* every other connection.
Crashed == [conn |-> [closed |-> TRUE, code |-> NoStatus], evts |-> <<>>, listening |-> FALSE]

\* Line 120: the receive takes the oldest buffered event.
ReceiveNewest(q) == [cmd |-> q[Len(q)], rest |-> SubSeq(q, 1, Len(q) - 1)]
Receive(q) == [cmd |-> Head(q), rest |-> Tail(q)]

\* Lines 118-120: select takes the receive from evts.  A receive from the
\* closed and drained channel yields a nil cmd.
EventLoopReceive ==
    /\ wsPc["eventLoop"] = "select"
    /\ IF Len(evts) > 0
       THEN /\ cmd' = Receive(evts).cmd
            /\ evts' = Receive(evts).rest
            /\ Goto("eventLoop", "write")
       ELSE /\ evtsClosed
            /\ UNCHANGED <<cmd, evts>>
            /\ Goto("eventLoop", "writeNil")
    /\ UNCHANGED <<ctxDone, listening, unsubscribe, conn, evtsClosed, closeOnce,
                   published, enqueued, written, dropped, sendOnClosed, cleanup,
                   snapshot, wire, process, others>>

\* Lines 128-129: select takes ctxDone.
EventLoopCtxDone ==
    /\ wsPc["eventLoop"] = "select"
    /\ ctxDone
    /\ Goto("eventLoop", "once")
    /\ UNCHANGED <<ctxDone, listening, unsubscribe, conn, evts, evtsClosed, closeOnce, cmd,
                   published, enqueued, written, dropped, sendOnClosed, cleanup,
                   snapshot, wire, process, others>>

\* Lines 121-127: writeCmd(ctx, conn, cmd)
EventLoopWrite(ok) ==
    /\ wsPc["eventLoop"] = "write"
    /\ ok => CanWrite(conn)
    /\ written' = IF ok THEN Append(written, cmd) ELSE written
    /\ wire' = IF ok THEN Write(wire, "event") ELSE wire
    /\ cmd' = NoCmd
    /\ Goto("eventLoop", IF ok THEN "select" ELSE "once")
    /\ UNCHANGED <<ctxDone, listening, unsubscribe, conn, evts, evtsClosed, closeOnce,
                   published, enqueued, dropped, sendOnClosed, cleanup,
                   snapshot, process, others>>

\* Lines 121-127 with the nil cmd: writeCmd writes "null" if the transport
\* takes it, and the log call that reads cmd.RequestID (line 123 or 126)
\* panics; the deferred calls of lines 115-116 run closeOnce.Do and
\* recover the panic.
EventLoopWriteNil ==
    /\ wsPc["eventLoop"] = "writeNil"
    /\ wire' = IF CanWrite(conn) THEN Write(wire, "null") ELSE wire
    /\ IF RecoverPanic(TRUE, TRUE)
       THEN Goto("eventLoop", "once") /\ UNCHANGED <<process, others>>
       ELSE Goto("eventLoop", "returned") /\ process' = "crashed" /\ others' = Crashed
    /\ UNCHANGED <<ctxDone, listening, unsubscribe, conn, evts, evtsClosed, closeOnce, cmd,
                   published, enqueued, written, dropped, sendOnClosed, cleanup,
                   snapshot>>

\* The event source publishes the next event to the callback it holds; the
\* events are published one at a time.
Publish ==
    /\ wsPc["callback"] = "idle"
    /\ listening
    /\ published < MaxPublished
    /\ published' = published + 1
    /\ Goto("callback", "check")
    /\ UNCHANGED <<ctxDone, listening, unsubscribe, conn, evts, evtsClosed, closeOnce, cmd,
                   enqueued, written, dropped, sendOnClosed, cleanup,
                   snapshot, wire, process, others>>

\* Line 98: ctx.Err() != nil
CtxErrNever(done) == FALSE
CtxErr(done) == done

\* Lines 98-100
CallbackCheck ==
    /\ wsPc["callback"] = "check"
    /\ IF CtxErr(ctxDone)
       THEN dropped' = TRUE /\ Goto("callback", "idle")
       ELSE dropped' = dropped /\ Goto("callback", "send")
    /\ UNCHANGED <<ctxDone, listening, unsubscribe, conn, evts, evtsClosed, closeOnce, cmd,
                   published, enqueued, written, sendOnClosed, cleanup,
                   snapshot, wire, process, others>>

\* Lines 101-111: the select.  A send to the closed channel panics in the
\* publisher's goroutine, which the publisher recovers or not; with room in
\* the buffer the event is enqueued; otherwise the context is cancelled and
\* the goroutine of lines 106-110 is started.
CallbackSend(recovered) ==
    /\ wsPc["callback"] = "send"
    /\ IF evtsClosed
       THEN /\ sendOnClosed' = TRUE
            /\ dropped' = TRUE
            /\ Goto("callback", "panicked")
            /\ process' = IF recovered THEN process ELSE "crashed"
            /\ others' = IF recovered THEN others ELSE Crashed
            /\ UNCHANGED <<evts, enqueued, ctxDone>>
       ELSE IF Len(evts) < EvtsCap
       THEN /\ recovered
            /\ evts' = Append(evts, published)
            /\ enqueued' = Append(enqueued, published)
            /\ Goto("callback", "idle")
            /\ UNCHANGED <<sendOnClosed, dropped, ctxDone, process, others>>
       ELSE /\ recovered
            /\ ctxDone' = TRUE
            /\ dropped' = TRUE
            /\ wsPc' = [wsPc EXCEPT !["callback"] = "idle", !["queueFull"] = "close"]
            /\ UNCHANGED <<evts, enqueued, sendOnClosed, process, others>>
    /\ UNCHANGED <<listening, unsubscribe, conn, evtsClosed, closeOnce, cmd,
                   published, written, cleanup, snapshot, wire>>

\* Line 108: _ = conn.Close(StatusEventsStuck, "Event queue full")
QueueFullClose ==
    /\ wsPc["queueFull"] = "close"
    /\ conn' = ConnClose(conn, StatusEventsStuck)
    /\ Goto("queueFull", "once")
    /\ UNCHANGED <<ctxDone, listening, unsubscribe, evts, evtsClosed, closeOnce, cmd,
                   published, enqueued, written, dropped, sendOnClosed, cleanup,
                   snapshot, wire, process, others>>

\* Lines 133-148: the command handler panics, or returns its response and
\* ctx.Err() is read.
SubmitCmd(panics) ==
    /\ wsPc["submitCmd"] = "submit"
    /\ Goto("submitCmd", IF panics THEN "panicked"
                         ELSE IF ctxDone THEN "returned" ELSE "respond")
    /\ UNCHANGED <<ctxDone, listening, unsubscribe, conn, evts, evtsClosed, closeOnce, cmd,
                   published, enqueued, written, dropped, sendOnClosed, cleanup,
                   snapshot, wire, process, others>>

\* Lines 134-139: the deferred function of submitCmd after a panic of the
\* command handler.  It is the deferred function that calls recoverPanic,
\* so the recover() of line 54 is not called directly by a deferred
\* function.  After a recovered panic the transport is closed and
\* forceClose runs; a panic that is not recovered ends the process, which
\* takes its transports with it.
SubmitCmdPanicClose ==
    /\ wsPc["submitCmd"] = "panicked"
    /\ IF RecoverPanic(FALSE, TRUE)
       THEN /\ conn' = ConnClose(conn, StatusInternalError)
            /\ Goto("submitCmd", "once")
            /\ UNCHANGED <<process, others>>
       ELSE /\ process' = "crashed"
            /\ others' = Crashed
            /\ conn' = IF conn.closed THEN conn ELSE Crashed.conn
            /\ Goto("submitCmd", "returned")
    /\ UNCHANGED <<ctxDone, listening, unsubscribe, evts, evtsClosed, closeOnce, cmd,
                   published, enqueued, written, dropped, sendOnClosed, cleanup,
                   snapshot, wire>>

\* Lines 149-155: the response is written; a failed write with the context
\* still live runs forceClose.
SubmitCmdRespond(ok) ==
    /\ wsPc["submitCmd"] = "respond"
    /\ ok => CanWrite(conn)
    /\ wire' = IF ok THEN Write(wire, "response") ELSE wire
    /\ Goto("submitCmd", IF ~ok /\ ~ctxDone THEN "once" ELSE "returned")
    /\ UNCHANGED <<ctxDone, listening, unsubscribe, conn, evts, evtsClosed, closeOnce, cmd,
                   published, enqueued, written, dropped, sendOnClosed, cleanup,
                   snapshot, process, others>>

\* Lines 92-96: the server calls the closer it holds for the connection:
\* closeManually closes the transport with the server's status code.
CloseManually ==
    /\ wsPc["closeManually"] = "unstarted"
    /\ listening
    /\ conn' = ConnClose(conn, StatusGoingAway)
    /\ Goto("closeManually", "once")
    /\ UNCHANGED <<ctxDone, listening, unsubscribe, evts, evtsClosed, closeOnce, cmd,
                   published, enqueued, written, dropped, sendOnClosed, cleanup,
                   snapshot, wire, process, others>>

\* The steps of task t that wait for nothing outside the program.
ForceClose(t) ==
    \/ OnceDo(t)
    \/ ForceCloseCancel(t)
    \/ ForceCloseUnsubscribe(t)
    \/ ForceCloseCloseNow(t)
    \/ ForceCloseCloseEvts(t)

WebsocketInit ==
    /\ wsPc = [t \in Tasks |->
                 IF t = "readLoop" THEN "subscribe"
                 ELSE IF t = "callback" THEN "idle" ELSE "unstarted"]
    /\ ctxDone = FALSE
    /\ listening = FALSE
    /\ unsubscribe = "func() {}"
    /\ conn = Open
    /\ evts = <<>>
    /\ evtsClosed = FALSE
    /\ closeOnce = "fresh"
    /\ cmd = NoCmd
    /\ published = 0
    /\ enqueued = <<>>
    /\ written = <<>>
    /\ dropped = FALSE
    /\ sendOnClosed = FALSE
    /\ cleanup = <<>>
    /\ snapshot = "pending"
    /\ wire = [first |-> "", client_state |-> 0, event |-> 0, sync_complete |-> 0, null |-> 0,
               response |-> 0]
    /\ process = "running"
    /\ others = [conn |-> Open, evts |-> <<>>, listening |-> TRUE]


(***************************************************************************)
(* src/websocket.go: sendInitialData, with the room store it reads.        *)
(***************************************************************************)
VARIABLES
    dbRooms,    \* the stored rooms: room -> sorting timestamp
    sidPc,      \* where sendInitialData is
    maxTS,      \* line 202
    batch,      \* `rooms`: the answer of the last GetBySortTS
    payload,    \* the rooms of payload.Rooms
    sentRooms   \* the rooms of the payloads written so far

sidVars == <<dbRooms, sidPc, maxTS, batch, payload, sentRooms>>

SortTimestamps == 1..MaxSortTS

\* Line 202: time.Now().Add(1 * time.Hour), later than every stored
\* sorting timestamp.
InitialMaxTS == MaxSortTS + 1

\* Room.GetBySortTS(ctx, maxTS, n): the answers that hold n of the rooms
\* with the greatest sorting timestamps strictly below ts (all of them, if
\* there are fewer), in descending order of timestamp.
GetBySortTS(db, ts, n) ==
    LET below == {r \in DOMAIN db : db[r] < ts}
        k == IF Cardinality(below) < n THEN Cardinality(below) ELSE n
    IN {s \in [1..k -> below] :
           /\ \A i, j \in 1..k : i < j => (s[i] # s[j] /\ db[s[i]] >= db[s[j]])
           /\ \A r \in below \ {s[i] : i \in 1..k} : \A i \in 1..k : db[r] <= db[s[i]]}

\* Lines 218-221: the loop over rooms handles the rooms before the first
\* one that has the sorting timestamp of the last room.
RECURSIVE BeforeBreak(_, _)
BeforeBreak(db, rs) ==
    IF rs = <<>> \/ db[Head(rs)] = db[rs[Len(rs)]]
    THEN <<>>
    ELSE <<Head(rs)>> \o BeforeBreak(db, Tail(rs))

\* The store sendInitialData finds.
ChooseStore(db) ==
    /\ sidPc = "start"
    /\ dbRooms' = db
    /\ sidPc' = "get"
    /\ UNCHANGED <<maxTS, batch, payload, sentRooms>>

\* Lines 207-252: GetBySortTS, the loop over the rooms it returned, which
\* fills the payload and moves maxTS to the timestamp of each room it adds,
\* and the marshalling.  The query, the read of a preview event or the
\* marshalling can fail, as they do once ctx is cancelled.
GetRooms(rs, ok) ==
    /\ sidPc = "get"
    /\ rs \in GetBySortTS(dbRooms, maxTS, BatchSize)
    /\ IF ok
       THEN LET added == BeforeBreak(dbRooms, rs)
            IN /\ batch' = rs
               /\ payload' = {added[i] : i \in 1..Len(added)}
               /\ maxTS' = IF added = <<>> THEN maxTS ELSE dbRooms[added[Len(added)]]
               /\ sidPc' = "write"
       ELSE /\ sidPc' = "failed"
            /\ UNCHANGED <<batch, payload, maxTS>>
    /\ UNCHANGED <<dbRooms, sentRooms>>

\* Lines 253-265: the batch is written; a batch of fewer than BatchSize
\* rooms was the last.
WriteBatch(ok) ==
    /\ sidPc = "write"
    /\ IF ok
       THEN /\ sentRooms' = sentRooms \cup payload
            /\ sidPc' = IF Len(batch) < BatchSize THEN "done" ELSE "get"
       ELSE /\ sidPc' = "failed"
            /\ UNCHANGED sentRooms
    /\ UNCHANGED <<dbRooms, maxTS, batch, payload>>

InitialDataInit ==
    /\ dbRooms = <<>>
    /\ sidPc = "start"
    /\ maxTS = InitialMaxTS
    /\ batch = <<>>
    /\ payload = {}
    /\ sentRooms = {}


(***************************************************************************)
(* src/pkg/hicli/paginate.go: GetRoomState and processGetRoomState, for    *)
(* one room and the calls one connection makes.                            *)
(***************************************************************************)
VARIABLES
    room,          \* the stored room metadata
    refresh,       \* the GetRoomState calls
    connCancelled, \* the context of the connection is cancelled
    requests,      \* server requests performed
    writes,        \* storage transactions that wrote
    upserts,       \* Room.Upsert calls
    notifications, \* SyncComplete events given to EventHandler
    applied        \* the fetched states applied by a transaction, in order

rsVars == <<room, refresh, connCancelled, requests, writes, upserts, notifications, applied>>

Refreshes == 1..NumRefreshes

\* The name a room has, or a state without an m.room.name event.
NoName == ""
RoomNames == {"a", "b"}

\* evts == nil (line 84)
NilEvts == [nil |-> TRUE, name |-> NoName]

\* Line 72: StateAsArray answers with the whole state, with or without a
\* name event; line 78: Members answers with member events only.
Fetched(refetch) ==
    {NilEvts} \cup
    {[nil |-> FALSE, name |-> n] : n \in IF refetch THEN RoomNames \cup {NoName} ELSE {NoName}}

IdleRefresh ==
    [pc |-> "idle", refetch |-> FALSE, dispatchEvt |-> FALSE, withoutCancel |-> FALSE,
     evts |-> NilEvts, err |-> FALSE, notified |-> FALSE, committed |-> FALSE]

\* ctx.Err() != nil for the context processGetRoomState was given: line 184
\* gives the background call context.WithoutCancel(ctx).
CtxDone(t) == ~refresh[t].withoutCancel /\ connCancelled

\* Lines 176-196, GetRoomState up to the call of processGetRoomState: with
\* neither fetchMembers nor refetch only the stored state is read; without
\* includeMembers the refresh runs in a goroutine of its own, with
\* dispatchEvt, and the caller reads the stored state at once.
GetRoomState(t, includeMembers, fetchMembers, refetch) ==
    /\ refresh[t].pc = "idle"
    /\ ~connCancelled
    /\ refresh' = [refresh EXCEPT ![t] =
          IF fetchMembers \/ refetch
          THEN [@ EXCEPT !.pc = "fetch", !.refetch = refetch,
                         !.dispatchEvt = ~includeMembers,
                         !.withoutCancel = ~includeMembers]
          ELSE [@ EXCEPT !.pc = "read"]]
    /\ UNCHANGED <<room, connCancelled, requests, writes, upserts, notifications, applied>>

\* Lines 70-86: the server request.  With a cancelled context the request
\* is not made; otherwise it fails or answers, and a nil answer returns nil.
FetchState(t, ok, fetched) ==
    /\ refresh[t].pc = "fetch"
    /\ fetched \in Fetched(refresh[t].refetch)
    /\ IF CtxDone(t)
       THEN /\ ~ok
            /\ refresh' = [refresh EXCEPT ![t].pc = "returned", ![t].err = TRUE]
            /\ UNCHANGED requests
       ELSE /\ requests' = requests + 1
            /\ refresh' = [refresh EXCEPT ![t] =
                  IF ~ok THEN [@ EXCEPT !.pc = "returned", !.err = TRUE]
                  ELSE IF fetched.nil THEN [@ EXCEPT !.pc = "processed"]
                  ELSE [@ EXCEPT !.pc = "apply", !.evts = fetched]]
    /\ UNCHANGED <<room, connCancelled, writes, upserts, notifications, applied>>

\* Lines 116-119 and 129-131: updatedRoom has HasMemberList set and the
\* fields processImportantEvent takes from the fetched events.
UpdatedRoom(fetched) == [Name |-> fetched.name, HasMemberList |-> TRUE]

\* Room.CheckChangesAndCopyInto(room): the fields of updatedRoom that are
\* set and differ from the stored ones are copied into room; the answer is
\* whether there was one.
CopyInto(updated, stored) ==
    [Name |-> IF updated.Name # NoName THEN updated.Name ELSE stored.Name,
     HasMemberList |-> stored.HasMemberList \/ updated.HasMemberList]
CheckChanges(updated, stored) == CopyInto(updated, stored) # stored

\* Line 149: the room is saved, and the change dispatched, only if
\* CheckChangesAndCopyInto found a change.
SavesRoomAlways(roomChanged) == TRUE
SavesRoom(roomChanged) == roomChanged

\* Where the transaction fails: at one of the storage calls of its body
\* (lines 112, 120, 133, 140, 144, 150), or at the commit DoTxn makes after
\* the body has returned nil.
NoRefreshFail == "none"
BodyFails == {"Room.Get", "MassUpsertState", "Media.AddMany", "AddManyReferences",
              "CurrentState.AddMany", "Room.Upsert"}
RefreshFails == {NoRefreshFail, "commit"} \cup BodyFails

\* Lines 149-170: the body reaches h.EventHandler when no storage call
\* before it has failed, the room has changed and dispatchEvt is set.
Dispatches(fail, saves, dispatchEvt) == fail \notin BodyFails /\ saves /\ dispatchEvt

\* Lines 111-173: the transaction.  It does not begin under a cancelled
\* context; otherwise the events, media and current state are written, and
\* a changed room is upserted and, with dispatchEvt, dispatched, all inside
\* the body; the writes are kept if the body returns nil and the commit
\* succeeds, and rolled back otherwise.
ApplyState(t, fail) ==
    /\ refresh[t].pc = "apply"
    /\ IF CtxDone(t)
       THEN /\ fail = NoRefreshFail
            /\ refresh' = [refresh EXCEPT ![t].pc = "returned", ![t].err = TRUE]
            /\ UNCHANGED <<room, writes, upserts, notifications, applied>>
       ELSE LET updatedRoom == UpdatedRoom(refresh[t].evts)
                roomChanged == CheckChanges(updatedRoom, room)
                saves == SavesRoom(roomChanged)
                dispatched == Dispatches(fail, saves, refresh[t].dispatchEvt)
                committed == fail = NoRefreshFail
            IN /\ fail = "Room.Upsert" => saves
               /\ upserts' = IF saves /\ fail \notin BodyFails THEN upserts + 1 ELSE upserts
               /\ notifications' = IF dispatched THEN notifications + 1 ELSE notifications
               /\ room' = IF committed /\ saves THEN CopyInto(updatedRoom, room) ELSE room
               /\ writes' = IF committed THEN writes + 1 ELSE writes
               /\ applied' = IF committed THEN Append(applied, refresh[t].evts) ELSE applied
               /\ refresh' = [refresh EXCEPT ![t] =
                     [@ EXCEPT !.pc = IF committed THEN "processed" ELSE "returned",
                               !.err = ~committed,
                               !.notified = dispatched,
                               !.committed = committed]]
    /\ UNCHANGED <<connCancelled, requests>>

\* Lines 183-196: the background goroutine ends; the synchronous caller
\* goes on to read the stored state.
Processed(t) ==
    /\ refresh[t].pc = "processed"
    /\ refresh' = [refresh EXCEPT ![t].pc = IF refresh[t].withoutCancel THEN "returned" ELSE "read"]
    /\ UNCHANGED <<room, connCancelled, requests, writes, upserts, notifications, applied>>

\* Lines 192-195: CurrentState.GetAllExceptMembers or GetAll
ReadCurrentState(t, ok) ==
    /\ refresh[t].pc = "read"
    /\ ok => ~connCancelled
    /\ refresh' = [refresh EXCEPT ![t].pc = "returned", ![t].err = ~ok]
    /\ UNCHANGED <<room, connCancelled, requests, writes, upserts, notifications, applied>>

\* The connection goes away: cancel() (websocket.go, line 85).
CancelConnection ==
    /\ ~connCancelled
    /\ connCancelled' = TRUE
    /\ UNCHANGED <<room, refresh, requests, writes, upserts, notifications, applied>>

RefreshInit ==
    /\ room = [Name |-> NoName, HasMemberList |-> FALSE]
    /\ refresh = [t \in Refreshes |-> IdleRefresh]
    /\ connCancelled = FALSE
    /\ requests = 0
    /\ writes = 0
    /\ upserts = 0
    /\ notifications = 0
    /\ applied = <<>>


(***************************************************************************)
(* src/unnamed/part_000: generateToken and validateAuth.                   *)
(***************************************************************************)
VARIABLES
    tkPc,       \* "start", "configured", "issued"
    tkConfig,   \* Config.Web: Username and TokenKey
    tkNow,      \* time.Now(), in ticks
    tkIssued,   \* what generateToken returned: the token and its expiry
    tkCheck     \* the last validateAuth: the token presented, the time, the answer

tkVars == <<tkPc, tkConfig, tkNow, tkIssued, tkCheck>>

\* Line 86
MaxTokenLen == 100
\* sha256.New (line 98): bytes of an HMAC-SHA256 sum
SHA256Size == 32
\* Line 82: decimal digits of a Unix timestamp in seconds
ExpiryDigits == 10

RECURSIVE Repeat(_, _)
Repeat(c, n) == IF n = 0 THEN <<>> ELSE <<c>> \o Repeat(c, n - 1)

\* The usernames: "q" is a character json.Marshal escapes (a double quote,
\* written as two bytes), "a" one it writes as it is.
Usernames ==
    {Repeat("q", i) \o Repeat("a", j) : <<i, j>> \in
        {p \in (0..MaxUsernameLen) \X (0..MaxUsernameLen) : p[1] + p[2] <= MaxUsernameLen}}
TokenKeys == {"k1", "k2"}

\* jsontime.U(t): the time as whole Unix seconds.
Unix(t) == t \div TicksPerSecond

\* Lines 114-117, json.Marshal(tokenData{...}): the bytes of
\* {"username":"...","expiry":N}.
RECURSIVE EscapedLen(_)
EscapedLen(u) ==
    IF u = <<>> THEN 0 ELSE (IF Head(u) = "q" THEN 2 ELSE 1) + EscapedLen(Tail(u))
JSONLen(td) == 13 + EscapedLen(td.Username) + 11 + ExpiryDigits + 1

\* base64.RawURLEncoding.EncodeToString: characters for n bytes, unpadded.
Base64Len(n) == (4 * n + 2) \div 3

\* hmac.New(sha256.New, key) over data: equal sums only for the same key
\* and the same data.
Hmac(key, data) == [key |-> key, data |-> data]

\* Lines 112-122
generateToken(config, now) ==
    LET expiry == now + TokenLifetime * TicksPerSecond
        data == [Username |-> config.Username, Expiry |-> Unix(expiry)]
    IN [token |-> [payload |-> data, checksum |-> Hmac(config.TokenKey, data)],
        expiry |-> expiry]

\* len(token): the two base64 parts and the "." between them.
TokenLen(token) == Base64Len(JSONLen(token.payload)) + 1 + Base64Len(SHA256Size)

\* Lines 85-110.  A token of two well-formed base64 parts is too long, or
\* its checksum is not the HMAC of its payload under the configured key,
\* or its payload names another user or a time that is not after now.
validateAuth(config, now, token) ==
    /\ ~(TokenLen(token) > MaxTokenLen)
    /\ Hmac(config.TokenKey, token.payload) = token.checksum
    /\ token.payload.Username = config.Username
    /\ token.payload.Expiry * TicksPerSecond > now

\* The tokens a client can make of the one it was given: the token itself,
\* or one with the payload or the checksum part altered.
Presentable(token) ==
    {token}
    \cup {[token EXCEPT !.payload.Username = u] : u \in {<<>>, <<"a">>} \ {token.payload.Username}}
    \cup {[token EXCEPT !.payload.Expiry = @ + 1]}
    \cup {[token EXCEPT !.checksum.key = k] : k \in TokenKeys \ {token.checksum.key}}
    \cup {[token EXCEPT !.checksum.data.Expiry = @ + 1]}

\* The configuration the server is started with.
Configure(username, key) ==
    /\ tkPc = "start"
    /\ tkConfig' = [Username |-> username, TokenKey |-> key]
    /\ tkPc' = "configured"
    /\ UNCHANGED <<tkNow, tkIssued, tkCheck>>

\* Lines 124-132, writeTokenCookie after a login.
WriteTokenCookie ==
    /\ tkPc = "configured"
    /\ tkIssued' = generateToken(tkConfig, tkNow)
    /\ tkPc' = "issued"
    /\ UNCHANGED <<tkConfig, tkNow, tkCheck>>

\* Lines 135-136 and 170-171: a request presents a cookie.
CheckCookie(token) ==
    /\ tkPc = "issued"
    /\ token \in Presentable(tkIssued.token)
    /\ tkCheck' = [done |-> TRUE, token |-> token, at |-> tkNow,
                   accepted |-> validateAuth(tkConfig, tkNow, token)]
    /\ UNCHANGED <<tkPc, tkConfig, tkNow, tkIssued>>

\* Time passes.
Tick ==
    /\ tkPc # "start"
    /\ tkNow < MaxNow
    /\ tkNow' = tkNow + 1
    /\ UNCHANGED <<tkPc, tkConfig, tkIssued, tkCheck>>

NoToken == [payload |-> [Username |-> <<>>, Expiry |-> 0],
            checksum |-> Hmac("", [Username |-> <<>>, Expiry |-> 0])]

TokenInit ==
    /\ tkPc = "start"
    /\ tkConfig = [Username |-> <<>>, TokenKey |-> ""]
    /\ tkNow = 0
    /\ tkIssued = [token |-> NoToken, expiry |-> 0]
    /\ tkCheck = [done |-> FALSE, token |-> NoToken, at |-> 0, accepted |-> FALSE]

vars == <<pagVars, rlVars, wsVars, sidVars, rsVars, tkVars>>

PaginateInit ==
    /\ paginationInterrupter = [r \in Rooms |-> NoCall]
    /\ prevBatch = [r \in Rooms |-> InitialPrevBatch]
    /\ timeline = [r \in Rooms |-> <<>>]
    /\ timelineFirst = [r \in Rooms |-> 1]
    /\ sessionRequests = {}
    /\ call = [c \in Calls |-> IdleCall]

RoomListInit ==
    /\ rooms = [r \in ListRooms |-> NoRoom]
    /\ roomList = <<>>
    /\ emitted = FALSE
    /\ handler = "none"
    /\ resyncRoomList = FALSE
    /\ changedRoomListEntries = <<>>
    /\ occupied = {}

Init == PaginateInit /\ RoomListInit /\ WebsocketInit /\ InitialDataInit /\ RefreshInit
        /\ TokenInit

\* Values of Paginate's maxTimelineID that fall before, inside and after the
\* rows of the room's timeline.
Befores(r) == (timelineFirst[r] - 1)..(timelineFirst[r] + Len(timeline[r]))

\* One step of PaginateServer for a caller in `callers`, the server
\* answering with chunks of at most n events.
PaginateServerNext(callers, n) ==
    \/ \E c \in callers, r \in Rooms : PaginateServer(c, r)
    \/ \E c \in callers, getFails \in BOOLEAN : RoomGet(c, getFails)
    \/ \E c \in callers : MessagesFails(c)
    \/ \E c \in callers : \E chunk \in Chunks(call[c].roomID, n),
                             end \in ServerTokens : Messages(c, chunk, end)
    \/ \E c \in callers, setFails \in BOOLEAN : ApplyLastPage(c, setFails)
    \/ \E c \in callers :
           \E fail \in {NoFail} \cup LoopFails(Len(call[c].resp.Chunk)) \cup TailFails :
               ApplyTxn(c, fail)
    \/ \E c \in callers : Deferred(c)
    \/ \E c \in callers : TakeResult(c)
    \/ \E c \in callers : Cancel(c)

\* One frontend paginating any room through Paginate or PaginateServer,
\* pages of up to Limit events, while live sync goes on.
PaginateNext ==
    \/ PaginateServerNext({1}, Limit)
    \/ \E r \in Rooms :
           \E before \in Befores(r), getFails \in BOOLEAN :
               Paginate(1, r, before, getFails)
    \/ PaginateDelegates(1)
    \/ \E r \in Rooms, e \in Events : LiveSync(r, e)
PaginateSpec == Init /\ [][PaginateNext /\ UNCHANGED <<rlVars, wsVars, sidVars, rsVars, tkVars>>]_vars

\* All callers in PaginateServer concurrently, pages of up to
\* ConcurrentChunk events.
ConcurrentNext == PaginateServerNext(Calls, ConcurrentChunk)
ConcurrentSpec == Init /\ [][ConcurrentNext /\ UNCHANGED <<rlVars, wsVars, sidVars, rsVars, tkVars>>]_vars

\* The metas a sync delta carries for a room: any sorting timestamp, any
\* unread message count; no preview event.
SyncMetas ==
    [sorting_timestamp : Timestamps, unread_messages : UnreadValues,
     unread_notifications : {0}, unread_highlights : {0}, preview_event_rowid : {0}]

\* sync.rooms: up to n distinct rooms, in any key order.
SyncRooms(metas, eventSets, n) ==
    {data \in UNION {[1..m -> [room_id : ListRooms, meta : metas, events : eventSets]] :
                         m \in 0..n} :
        \A i, j \in 1..Len(data) : i # j => data[i].room_id # data[j].room_id}

\* The deltas: up to MaxDelta rooms that are new, changed or unchanged, or
\* a report of the rooms the user has left.
SyncDeltas ==
    {[rooms |-> data, left_rooms |-> {}] : data \in SyncRooms(SyncMetas, {{}}, MaxDelta)}
    \cup {[rooms |-> <<>>, left_rooms |-> left] : left \in SUBSET ListRooms}

\* The row IDs of the events a delta can carry.
PreviewRowIDs == {1}

\* events_decrypted payloads: the room, its decrypted events and the row ID
\* of the preview event (0: the preview is not among them).
DecryptedPayloads ==
    [room_id : ListRooms, events : SUBSET PreviewRowIDs,
     preview_event_rowid : {0} \cup PreviewRowIDs]

RoomListNext == \E sync \in SyncDeltas : ApplySync(sync)
RoomListSpec == Init /\ [][RoomListNext /\ UNCHANGED <<pagVars, wsVars, sidVars, rsVars, tkVars>>]_vars

\* The metas of deltas with preview events: one timestamp for all rooms, the
\* preview event absent or one of PreviewRowIDs.
PreviewMetas ==
    [sorting_timestamp : {1}, unread_messages : {0},
     unread_notifications : {0}, unread_highlights : {0},
     preview_event_rowid : {0} \cup PreviewRowIDs]

\* Deltas of up to MaxDelta rooms, carrying any of the events.
PreviewDeltas ==
    {[rooms |-> data, left_rooms |-> {}] :
        data \in SyncRooms(PreviewMetas, SUBSET PreviewRowIDs, MaxDelta)}

PreviewNext ==
    \/ \E sync \in PreviewDeltas : ApplySync(sync)
    \/ \E decrypted \in DecryptedPayloads : ApplyDecrypted(decrypted)
PreviewSpec == Init /\ [][PreviewNext /\ UNCHANGED <<pagVars, wsVars, sidVars, rsVars, tkVars>>]_vars


\* The steps of the goroutines that the Go scheduler runs without waiting
\* for the client, the server or the event source.
WebsocketRuns ==
    \/ \E t \in Tasks : ForceClose(t)
    \/ AssignUnsubscribe
    \/ EventLoopReceive
    \/ EventLoopCtxDone
    \/ \E ok \in BOOLEAN : EventLoopWrite(ok)
    \/ EventLoopWriteNil
    \/ CallbackCheck
    \/ \E recovered \in BOOLEAN : CallbackSend(recovered)
    \/ QueueFullClose
    \/ SubmitCmdPanicClose
    \/ \E ok \in BOOLEAN : SubmitCmdRespond(ok)

WebsocketNext ==
    \/ WebsocketRuns
    \/ SubscribeEvents
    \/ \E ok \in BOOLEAN : InitialSnapshot(ok)
    \/ \E outcome \in {"error", "unsupported", "command"} : ReadLoop(outcome)
    \/ \E outcome \in {"getError", "writeError", "full", "last"} : SendInitialData(outcome)
    \/ Publish
    \/ \E panics \in BOOLEAN : SubmitCmd(panics)
    \/ CloseManually

\* The goroutines take steps while the process is running.
WebsocketStep == process = "running" /\ WebsocketNext /\ UNCHANGED <<pagVars, rlVars, sidVars, rsVars, tkVars>>
WebsocketSpec == Init /\ [][WebsocketStep]_vars

\* Every goroutine that can run does run.
WebsocketFairSpec ==
    WebsocketSpec
    /\ WF_vars(process = "running" /\ WebsocketRuns /\ UNCHANGED <<pagVars, rlVars, sidVars, rsVars, tkVars>>)


\* sendInitialData on a store of up to MaxStoredRooms rooms.
InitialDataNext ==
    \/ \E n \in 0..MaxStoredRooms : \E db \in [1..n -> SortTimestamps] : ChooseStore(db)
    \/ \E rs \in GetBySortTS(dbRooms, maxTS, BatchSize) : \E ok \in BOOLEAN : GetRooms(rs, ok)
    \/ \E ok \in BOOLEAN : WriteBatch(ok)
InitialDataStep == InitialDataNext /\ UNCHANGED <<pagVars, rlVars, wsVars, rsVars, tkVars>>
InitialDataSpec == Init /\ [][InitialDataStep]_vars

\* sendInitialData keeps running.
InitialDataFairSpec == InitialDataSpec /\ WF_vars(InitialDataStep)


\* The GetRoomState calls of one connection, and its cancellation.
RefreshNext ==
    \/ \E t \in Refreshes : \E includeMembers, fetchMembers, refetch \in BOOLEAN :
          GetRoomState(t, includeMembers, fetchMembers, refetch)
    \/ \E t \in Refreshes : \E ok \in BOOLEAN : \E fetched \in Fetched(TRUE) : FetchState(t, ok, fetched)
    \/ \E t \in Refreshes : \E fail \in RefreshFails : ApplyState(t, fail)
    \/ \E t \in Refreshes : Processed(t)
    \/ \E t \in Refreshes : \E ok \in BOOLEAN : ReadCurrentState(t, ok)
    \/ CancelConnection
RefreshStep == RefreshNext /\ UNCHANGED <<pagVars, rlVars, wsVars, sidVars, tkVars>>
RefreshSpec == Init /\ [][RefreshStep]_vars


\* Tokens are issued and presented while time passes.
TokenNext ==
    \/ \E username \in Usernames : \E key \in TokenKeys : Configure(username, key)
    \/ WriteTokenCookie
    \/ \E token \in Presentable(tkIssued.token) : CheckCookie(token)
    \/ Tick
TokenStep == TokenNext /\ UNCHANGED <<pagVars, rlVars, wsVars, sidVars, rsVars>>
TokenSpec == Init /\ [][TokenStep]_vars


(***************************************************************************)
(* Properties of the pagination controller.                                *)
(***************************************************************************)
\* The calls that are past the interrupter check for room r.
PastCheck(r) == {c \in Calls : call[c].pc \in InFlightPCs /\ call[c].roomID = r}

MutualExclusion == \A r \in Rooms : Cardinality(PastCheck(r)) <= 1

\* A step in which caller c is turned away with "already in progress".
Rejected(c) ==
    /\ call[c].pc \in {"idle", "lock"}
    /\ call'[c].pc = "done"
    /\ call'[c].err = ErrPaginationAlreadyInProgress

RejectedOnlyBySameRoom ==
    \A c \in Calls :
        /\ Rejected(c) =>
              /\ PastCheck(call'[c].roomID) \ {c} # {}
              /\ ~call'[c].requested
              /\ UNCHANGED <<timeline, timelineFirst, prevBatch, paginationInterrupter>>
        /\ \A r \in Rooms :
              (call[c].pc = "idle" /\ call'[c].pc # "idle" /\ call'[c].roomID = r
                 /\ PastCheck(r) = {}) => call'[c].pc = "room"

\* C1: per room at most one PaginateServer call is past the interrupter
\* check; a call that finds an entry for its room returns
\* ErrPaginationAlreadyInProgress without a server request and without
\* touching timeline or cursor; a call is turned away only by a call for the
\* same room.
C1_SingleFlight == []MutualExclusion /\ [][RejectedOnlyBySameRoom]_vars

\* Caller c has been turned away while another call holds the room.
C1_Witness ==
    \E c, d \in Calls :
        /\ call[c].pc = "done" /\ call[c].err = ErrPaginationAlreadyInProgress
        /\ d \in PastCheck(call[c].roomID)
        /\ paginationInterrupter[call[c].roomID] = d

\* C2: the interrupter map holds an entry for room r exactly while the call
\* that inserted it is outstanding, and the entry names that call.
C2_EntryWhileOutstanding ==
    \A r \in Rooms :
        IF paginationInterrupter[r] = NoCall
        THEN PastCheck(r) = {}
        ELSE PastCheck(r) = {paginationInterrupter[r]}

\* A caller was turned away for room r, and since then the call that held r
\* has completed and its entry is gone.
C2_Witness ==
    \E c \in Calls :
        /\ call[c].pc = "done" /\ call[c].err = ErrPaginationAlreadyInProgress
        /\ paginationInterrupter[call[c].roomID] = NoCall
        /\ PastCheck(call[c].roomID) = {}

NoDup(s) == \A i, j \in 1..Len(s) : i # j => s[i] # s[j]
RowIDs(events) == [k \in 1..Len(events) |-> events[k].RowID]

\* C3: neither the events PaginateServer returns nor a room's timeline
\* contains the same event row twice.
C3_NoDuplicateRows ==
    /\ \A r \in Rooms : NoDup(timeline[r])
    /\ \A c \in Calls :
          (call[c].pc = "defer" /\ call[c].err = NoErr) => NoDup(RowIDs(call[c].events))

\* A step in which caller c's fetched page is applied (or fails to be).
Applies(c) == call[c].pc = "apply" /\ call'[c].pc = "defer"

\* C4: when applying a fetched page fails, the call returns an error and the
\* room's cursor and timeline (and the stored session requests) are as they
\* were, so the cursor still holds the token the page was requested with.
C4_FailedPageChangesNothing ==
    [][\A c \in Calls :
          (Applies(c) /\ call'[c].err # NoErr) =>
              /\ UNCHANGED <<prevBatch, timeline, timelineFirst, sessionRequests>>
              /\ prevBatch'[call[c].roomID] = call[c].reqToken
              /\ call'[c].wakeups = 0]_vars

\* The prepend of a page failed after the cursor write of the same
\* transaction; the cursor holds the token of the request.
C4_Witness ==
    \E c \in Calls :
        /\ call[c].pc = "defer"
        /\ call[c].err = "failed to prepend events to timeline"
        /\ prevBatch[call[c].roomID] = call[c].reqToken
        /\ Len(call[c].events) > 0

\* C5: once a room's cursor holds the sentinel it keeps it, and every step
\* of a call for that room issues no server request and leaves cursor and
\* timeline alone; a PaginateServer call that reads the room without error
\* returns no events and has_more = false.
C5_SentinelIsTerminal ==
    [][\A c \in Calls, r \in Rooms :
          (prevBatch[r] = PrevBatchPaginationComplete /\ call'[c] # call[c]
             /\ (call[c].roomID = r \/ call'[c].roomID = r)) =>
              /\ prevBatch'[r] = PrevBatchPaginationComplete
              /\ timeline'[r] = timeline[r]
              /\ call'[c].requested = call[c].requested \/ call'[c].pc = "idle"
              /\ (call[c].pc = "room" /\ call'[c].pc # "room" /\ call'[c].err = NoErr) =>
                    /\ call'[c].pc = "defer" /\ call'[c].returned
                    /\ call'[c].events = <<>> /\ ~call'[c].hasMore
                    /\ ~call'[c].requested]_vars

\* A PaginateServer call on an exhausted room is about to return.
C5_Witness ==
    \E c \in Calls :
        /\ call[c].pc = "defer" /\ call[c].err = NoErr /\ call[c].returned
        /\ ~call[c].requested /\ call[c].events = <<>> /\ ~call[c].hasMore
        /\ prevBatch[call[c].roomID] = PrevBatchPaginationComplete

\* C6: when a page sets the cursor to the sentinel, every event of that page
\* is in the room's timeline.
C6_NoEventDroppedAtEnd ==
    [][\A c \in Calls :
          (Applies(c) /\ call'[c].err = NoErr
             /\ prevBatch'[call[c].roomID] = PrevBatchPaginationComplete) =>
              \A k \in 1..Len(call[c].resp.Chunk) :
                  TimelineHas(timeline'[call[c].roomID], RowIDOf(call[c].resp.Chunk[k]))]_vars

\* The chunk's events that are not in timeline tl, in server order.
NonDuplicates(chunk, tl) ==
    LET new == SelectSeq(chunk, LAMBDA e : RowIDOf(e) \notin Range(tl))
    IN  [k \in 1..Len(new) |-> RowIDOf(new[k])]

\* C7: a page applied in a transaction returns exactly the chunk's events
\* that were not in the timeline, in server order; the rows prepended are
\* the rows of the returned events, index by index; and every returned
\* event carries the timeline row under which its own row was stored.
C7_Compaction ==
    [][\A c \in Calls :
          (Applies(c) /\ call'[c].err = NoErr /\ ~IsLastPage(call[c].resp)) =>
              LET r == call[c].roomID
                  want == NonDuplicates(call[c].resp.Chunk, timeline[r])
                  got == call'[c].events
              IN  /\ RowIDs(got) = want
                  /\ timeline'[r] = Reverse(want) \o timeline[r]
                  /\ call'[c].iOffset = Len(call[c].resp.Chunk) - Len(want)
                  /\ \A k \in 1..Len(got) :
                        LET pos == got[k].TimelineRowID - timelineFirst'[r] + 1
                        IN  /\ pos \in 1..Len(timeline'[r])
                            /\ timeline'[r][pos] = got[k].RowID]_vars

\* A page was applied of which one event was skipped as a duplicate and a
\* later one was kept.
C7_Witness ==
    \E c \in Calls :
        /\ call[c].pc = "defer" /\ call[c].err = NoErr /\ call[c].committed
        /\ call[c].iOffset > 0 /\ Len(call[c].events) > 0
        /\ timeline[call[c].roomID][1] = call[c].events[Len(call[c].events)].RowID

\* C8: a page sends the wakeup exactly once when its transaction commits and
\* at least one of its events was queued for deferred decryption, and not at
\* all otherwise.
C8_WakeupOncePerPage ==
    [][\A c \in Calls :
          Applies(c) =>
              LET queued == /\ ~IsLastPage(call[c].resp)
                            /\ \E k \in 1..Len(call[c].resp.Chunk) :
                                   Undecryptable(call[c].resp.Chunk[k])
              IN  call'[c].wakeups = IF call'[c].err = NoErr /\ queued THEN 1 ELSE 0]_vars

\* The events Paginate reads from local storage: the rows of the room's
\* timeline below maxTimelineID, newest first, at most Limit of them.
LocalOlder(r, maxTimelineID) ==
    LET rows == {k \in 1..Len(timeline[r]) : timelineFirst[r] + k - 1 < maxTimelineID}
        n == IF Cardinality(rows) < Limit THEN Cardinality(rows) ELSE Limit
        top == IF rows = {} THEN 0 ELSE CHOOSE k \in rows : \A j \in rows : j <= k
    IN  [i \in 1..n |-> [RowID |-> timeline[r][top - i + 1],
                         TimelineRowID |-> timelineFirst[r] + top - i]]

\* C9: Paginate returns the local events with has_more = true, without a
\* server request or an interrupter entry, when there are local events older
\* than maxTimelineID; when there are none it goes on as PaginateServer.
C9_PaginateLocalFirst ==
    \A c \in Calls :
        /\ (call[c].kind = "Paginate" /\ call[c].pc = "done" /\ call[c].err = NoErr) =>
              /\ call[c].events = LocalOlder(call[c].roomID, call[c].maxTimelineID)
              /\ call[c].events # <<>>
              /\ call[c].hasMore /\ call[c].returned /\ ~call[c].requested
              /\ paginationInterrupter[call[c].roomID] # c
        /\ (call[c].kind = "Paginate" /\ call[c].pc = "lock") =>
              /\ LocalOlder(call[c].roomID, call[c].maxTimelineID) = <<>>
              /\ ~call[c].requested
              /\ paginationInterrupter[call[c].roomID] # c
        /\ (call[c].kind = "Paginate" /\ call[c].pc \in InFlightPCs) =>
              paginationInterrupter[call[c].roomID] = c

\* Paginate answered from local storage, skipping the rows from
\* maxTimelineID on.
C9_Witness ==
    \E c \in Calls :
        /\ call[c].kind = "Paginate" /\ call[c].pc = "done" /\ call[c].err = NoErr
        /\ Len(call[c].events) > 0
        /\ Len(call[c].events) < Len(timeline[call[c].roomID])


\* C27: every PaginateServer call that completes without error after
\* receiving a non-empty chunk leaves the room's cursor equal to the
\* server's end token, also when every event of the chunk was already in
\* the timeline.
C27_CursorAdvances ==
    [][\A c \in Calls :
          (Applies(c) /\ call'[c].err = NoErr /\ Len(call[c].resp.Chunk) > 0) =>
              prevBatch'[call[c].roomID] = EndOf(call[c].resp)]_vars

\* C28: a PaginationResponse returned without error holds only stored,
\* non-null events, as many as the call added to the timeline, also on the
\* page on which the server signals the end of history.
C28_OnlyStoredEvents ==
    [][\A c \in Calls :
          (Applies(c) /\ call'[c].err = NoErr) =>
              /\ \A k \in 1..Len(call'[c].events) : call'[c].events[k] # NilEvent
              /\ Len(call'[c].events) =
                     Len(timeline'[call[c].roomID]) - Len(timeline[call[c].roomID])]_vars


(***************************************************************************)
(* Properties of the room list.                                            *)
(***************************************************************************)
\* C10: after any sequence of applySync calls with non-negative integer
\* sorting timestamps, the room list is sorted ascending by
\* sorting_timestamp.
C10_RoomListSorted ==
    \A i, j \in 1..Len(roomList) :
        i < j => roomList[i].sorting_timestamp <= roomList[j].sorting_timestamp

\* An incremental update has put an entry between two others, with a tie
\* on one side, and another entry has timestamp 0.
C10_Witness ==
    /\ emitted
    /\ Len(roomList) = NumListRooms
    /\ roomList[1].sorting_timestamp = 0
    /\ roomList[2].sorting_timestamp = roomList[3].sorting_timestamp
    /\ roomList[2].sorting_timestamp > 0
    /\ \E r \in ListRooms : rooms[r].known /\ rooms[r].meta.unread_messages = 1

\* The number of entries the list holds for room r.
EntriesOf(list, r) == Cardinality({k \in 1..Len(list) : list[k].room_id = r})

\* C11: after any sequence of sync deltas (new, changed and unchanged rooms,
\* and reports of rooms the user has left), the room list holds exactly one
\* entry for each room the user occupies and none for any other room.
C11_OneEntryPerOccupiedRoom ==
    \A r \in ListRooms : EntriesOf(roomList, r) = (IF r \in occupied THEN 1 ELSE 0)

\* The list after the entry is put immediately after the last entry whose
\* sorting_timestamp is less than or equal to its own, at the front when
\* there is none.
AfterLastLE(list, entry) ==
    InsertAt(list, FindLastIndexLE(list, entry.sorting_timestamp) + 1, entry)

RECURSIVE AfterLastLEAll(_, _)
AfterLastLEAll(list, entries) ==
    IF entries = <<>> THEN list
    ELSE AfterLastLEAll(AfterLastLE(list, Head(entries)), Tail(entries))

\* C12: in the incremental re-sort every new or changed entry is inserted
\* immediately after the last existing entry whose sorting_timestamp is
\* less than or equal to its own (at the front only if there is none), for
\* every timestamp including 0 and those equal to the head's or the tail's.
C12_InsertedAfterLastLE ==
    [][(handler' = "applySync" /\ ~resyncRoomList' /\ changedRoomListEntries' # <<>>) =>
          LET ids == changedRoomListEntries'
              kept == SelectSeq(roomList, LAMBDA e : e.room_id \notin Range(ids))
              entries == [i \in 1..Len(ids) |->
                             roomList'[FindIndexOfRoom(roomList', ids[i])]]
          IN  roomList' = AfterLastLEAll(kept, entries)]_vars

\* The delta of the step touches no room that was unknown and leaves the
\* counters, timestamp and preview row ID of every room as stored.
SameAsStored ==
    \A r \in ListRooms :
        /\ rooms'[r].known = rooms[r].known
        /\ rooms[r].known => rooms'[r].meta = rooms[r].meta

\* C13: once the room list is populated, a sync delta in which every
\* touched room has the counters, sorting timestamp and preview row ID
\* already stored, whatever events it carries, emits no room-list
\* notification and leaves the list unchanged.
C13_NoOpSyncEmitsNothing ==
    [][(handler' = "applySync" /\ Len(roomList) > 0 /\ SameAsStored) =>
          (~emitted' /\ roomList' = roomList)]_vars

\* C14: the wholesale rebuild runs only while the list is empty and the
\* list it produces holds every known room once; after the list has become
\* non-empty no applySync or applyDecrypted call empties it or rebuilds it
\* wholesale.
C14_PopulatedIsOneWay ==
    [][/\ (handler' = "applySync" /\ resyncRoomList') =>
            /\ Len(roomList) = 0
            /\ \A r \in ListRooms :
                   EntriesOf(roomList', r) = (IF rooms'[r].known THEN 1 ELSE 0)
       /\ Len(roomList) > 0 =>
            /\ Len(roomList') > 0
            /\ ~resyncRoomList']_vars

\* The list was rebuilt from a delta, has grown by incremental updates to
\* hold all rooms, and applyDecrypted has then replaced a preview event.
C14_Witness ==
    /\ handler = "applyDecrypted" /\ emitted /\ ~resyncRoomList
    /\ Len(roomList) = NumListRooms
    /\ \E k \in 1..Len(roomList) : roomList[k].preview_event # 0

\* The step changes nothing of the stored rooms but unread counters of
\* room r.
OnlyCountersChange(r) ==
    /\ rooms[r].known /\ rooms'[r].known
    /\ rooms'[r].meta # rooms[r].meta
    /\ rooms'[r].meta.sorting_timestamp = rooms[r].meta.sorting_timestamp
    /\ rooms'[r].meta.preview_event_rowid = rooms[r].meta.preview_event_rowid
    /\ \A q \in ListRooms \ {r} : rooms'[q] = rooms[q]

\* C15: when a sync delta changes only a room's unread counters, the
\* room's entry is replaced at the index it had, all other entries keep
\* content and order, and a notification fires.
C15_ReplacedInPlace ==
    [][\A r \in ListRooms :
          (handler' = "applySync" /\ Len(roomList) > 0 /\ OnlyCountersChange(r)) =>
              LET idx == FindIndexOfRoom(roomList, r)
              IN  /\ emitted'
                  /\ Len(roomList') = Len(roomList)
                  /\ FindIndexOfRoom(roomList', r) = idx
                  /\ \A k \in 1..Len(roomList) : k # idx => roomList'[k] = roomList[k]
                  /\ idx # 0 =>
                        roomList'[idx].unread_messages = rooms'[r].meta.unread_messages]_vars

(***************************************************************************)
(* Properties of the push dispatcher.                                      *)
(***************************************************************************)
IsPrefix(s, t) == Len(s) <= Len(t) /\ s = SubSeq(t, 1, Len(s))

\* The queue has overflowed: the goroutine of lines 106-110 was started.
Overflowed == wsPc["queueFull"] # "unstarted"

\* C16: when an event arrives for a connection whose queue is full, the
\* publisher is not blocked and, in every interleaving of the overflow path
\* with the event loop and the read loop, the close applied to the open
\* transport is the one with status code 4001.
C16_ClosedWithEventsStuck ==
    [][(/\ Overflowed
        /\ ~conn.closed /\ conn'.closed
        /\ wsPc'["closeManually"] = wsPc["closeManually"]
        /\ wsPc'["submitCmd"] = wsPc["submitCmd"])
          => conn'.code = StatusEventsStuck]_vars

C18_NoSendAfterClose == ~sendOnClosed

\* C19: the events the event loop writes appear in the order in which they
\* were enqueued, each at most once.
C19_WrittenInFIFOOrder == IsPrefix(written, enqueued)

\* Several events were written while later ones were enqueued behind them.
C19_Witness ==
    /\ Len(written) >= 2
    /\ Len(enqueued) > Len(written)

\* The first Len(s) events published, in order.
Consecutive(s) == \A i \in 1..Len(s) : s[i] = i

\* C20: for events published one at a time, the events written are a
\* prefix of those published; once an event has failed to be enqueued no
\* later event is enqueued or written, and the connection is closed.
C20_NoGapInPushedEvents ==
    /\ [](Consecutive(enqueued) /\ IsPrefix(written, enqueued))
    /\ [][dropped => enqueued' = enqueued]_vars
    /\ (dropped ~> conn.closed)

\* The queue overflowed after events had been written, more events were
\* published and the connection has been closed.
C20_Witness ==
    /\ dropped /\ Overflowed /\ conn.closed
    /\ Len(written) >= 1
    /\ published > Len(enqueued) + 1

\* The steps of forceClose and the exit after it.
Leaving == {"once", "cancel", "unsubscribe", "closeNow", "closeEvts", "done"}

\* C22: at most one client_state snapshot is written and no room-list batch
\* is written before it; if the snapshot write fails, no batch is sent,
\* sendInitialData is not started and HandleWebsocket leaves through the
\* cleanup, which has run when it has left.
C22_OneSnapshotBeforeBatches ==
    /\ wire.client_state <= 1
    /\ wire.sync_complete > 0 => (wire.client_state = 1 /\ snapshot = "written")
    /\ snapshot = "failed" =>
          /\ wire.client_state = 0
          /\ wire.sync_complete = 0
          /\ wsPc["sendInitialData"] = "unstarted"
          /\ wsPc["readLoop"] \in Leaving
          /\ wsPc["readLoop"] = "done" => cleanup = ForceCloseSteps

\* The snapshot and then every batch of the initial rooms have been
\* written.
C22_Witness ==
    /\ snapshot = "written"
    /\ wire.client_state = 1
    /\ wire.sync_complete = MaxBatches + 1
    /\ wsPc["sendInitialData"] = "returned"

\* The snapshot write failed and the connection has been cleaned up.
C22_FailedSnapshot ==
    /\ snapshot = "failed"
    /\ wsPc["readLoop"] = "done"
    /\ cleanup = ForceCloseSteps

\* C23: the step that handles a panic of a command handler leaves the
\* process running and the other connections as they were, closes an open
\* connection with the internal-error status and goes on to the cleanup.
C23_HandlerPanicRecovered ==
    [][(wsPc["submitCmd"] = "panicked" /\ wsPc'["submitCmd"] # "panicked") =>
          /\ process' = "running"
          /\ others' = others
          /\ wsPc'["submitCmd"] = "once"
          /\ ~conn.closed => conn' = [closed |-> TRUE, code |-> StatusInternalError]]_vars

\* C29: the event loop never goes on to handle a value received from the
\* closed queue.
C29_NoValueFromClosedQueue == wsPc["eventLoop"] # "writeNil"

\* C30: the first message written to the transport is the client_state
\* snapshot.
C30_SnapshotIsFirstMessage == wire.first \in {"", "client_state"}

\* C21: when sendInitialData has finished without a cancellation or an
\* error, every stored room was in one of the batches written.
C21_EveryRoomSent == sidPc = "done" => sentRooms = DOMAIN dbRooms

\* C26: sendInitialData terminates, whatever the rooms, the batch size and
\* the sorting timestamps.
C26_StreamingTerminates == <>(sidPc \in {"done", "failed"})

\* C24: once the context of the connection is cancelled, no room-state
\* refresh started for it, synchronous or in the background, performs a
\* server request or a storage write.
C24_NoWorkAfterCancel ==
    [][connCancelled => (requests' = requests /\ writes' = writes)]_vars

\* The fetched state would leave the stored metadata as it is.
NoChangeIn(fetched) ==
    /\ room.HasMemberList
    /\ fetched.name \in {NoName, room.Name}

\* C25: a transaction whose fetched state changes nothing in the stored
\* room metadata upserts no room and emits no notification, and one that
\* applies the state the last committed transaction applied emits none.
C25_NoChangeNoNotification ==
    [][\A t \in Refreshes :
          (refresh[t].pc = "apply" /\ refresh'[t].pc # "apply") =>
              /\ NoChangeIn(refresh[t].evts) =>
                    (upserts' = upserts /\ notifications' = notifications /\ room' = room)
              /\ (applied # <<>> /\ applied[Len(applied)] = refresh[t].evts) =>
                    notifications' = notifications]_vars

\* The same state was applied twice in a row by background refreshes: the
\* room was upserted and a notification emitted once.
C25_Witness ==
    /\ Len(applied) = 2
    /\ applied[1] = applied[2]
    /\ \A t \in Refreshes : refresh[t].pc = "returned" /\ refresh[t].dispatchEvt
    /\ upserts = 1
    /\ notifications = 1

\* C31: a refresh that has given a notification to the event handler is one
\* whose transaction has committed.
C31_NotifiedOnlyIfCommitted ==
    \A t \in Refreshes : refresh[t].notified => refresh[t].committed

\* C32: the token generateToken produced is accepted by validateAuth at
\* every time before the expiry generateToken returned, and a token is
\* rejected once that expiry has passed or when its payload or checksum
\* part has been altered.
C32_TokenRoundTrip ==
    tkCheck.done =>
        /\ (tkCheck.token = tkIssued.token /\ tkCheck.at < tkIssued.expiry) => tkCheck.accepted
        /\ tkCheck.at > tkIssued.expiry => ~tkCheck.accepted
        /\ tkCheck.token # tkIssued.token => ~tkCheck.accepted

\* The rejections alone: after the expiry, or of an altered token.
C32_Rejections ==
    tkCheck.done =>
        /\ tkCheck.at > tkIssued.expiry => ~tkCheck.accepted
        /\ tkCheck.token # tkIssued.token => ~tkCheck.accepted

\* A short username's own token, checked within the second of its expiry
\* or earlier: accepted before the whole second, rejected from it on.
C32_ShortUsernameAccepted ==
    (tkCheck.done /\ tkCheck.token = tkIssued.token
        /\ EscapedLen(tkConfig.Username) < MaxUsernameLen) =>
        (tkCheck.accepted <=> tkCheck.at < Unix(tkIssued.expiry) * TicksPerSecond)

====
